---- MODULE Spec2Model ----
(***************************************************************************)
(* A model of midi_tool_server: the MIDI transforms (change_tempo,         *)
(* transpose, common_to_swing), the pitch/melody extraction, the index     *)
(* builder and the hard-match retrieval endpoint.                          *)
(*                                                                         *)
(* Abstractions, stated once:                                              *)
(*  - A MIDI file is  [ticks_per_beat, tracks];  a track is                *)
(*    [name, msgs]  where name is what mido reports as track.name (a       *)
(*    sequence of one-character strings, <<>> when unnamed) and msgs the   *)
(*    messages in file order.  A message is a record with a type, a        *)
(*    delta-time "time" and the fields of its type.                        *)
(*  - Python floats are modelled by exact rationals: a ratio is a pair     *)
(*    <<numerator, denominator>> with denominator > 0, and every quotient  *)
(*    is truncated or rounded from the exact value.  Binary rounding of    *)
(*    the float operations is not modelled.                                *)
(*  - In common_to_swing the estimated bpm cancels out of the arithmetic   *)
(*    (one bar is always 2 * ticks_per_beat ticks), so positions are       *)
(*    computed in ticks.                                                   *)
(*  - A path is a sequence of name components; the output name            *)
(*    "{stem}-{suffix}-{uuid}.mid" is  stem \o <<suffix, uuid>>.           *)
(*  - The libraries are taken at their documented behaviour on well-formed *)
(*    values: mido's range check of a tempo, its refusal to save a         *)
(*    negative delta-time and pretty_midi's tempo estimate are outside     *)
(*    the model.  A file mido cannot parse is the value Corrupt, and the   *)
(*    exception it raises is named "ParseError".                           *)
(***************************************************************************)
EXTENDS Integers, Sequences, FiniteSets, TLC

VARIABLES
    disk,     \* the file system: a function from the existing paths to contents
    calls,    \* the requests served so far, each with its response
    input,    \* the argument of a pure function under check
    output    \* its result

vars == <<disk, calls, input, output>>

\* the value of output before the function under check has run
NotRun == [not_run |-> TRUE]

----------------------------------------------------------------------------
(* Arithmetic helpers *)

Max(a, b) == IF a >= b THEN a ELSE b

Min(a, b) == IF a <= b THEN a ELSE b

Abs(a) == IF a >= 0 THEN a ELSE -a

\* floor(n / d) for d > 0 and any integer n
FloorDiv(n, d) == IF n >= 0 THEN n \div d ELSE -((-n + d - 1) \div d)

\* Python's int(n / d): truncation toward zero, d > 0
TruncDiv(n, d) == IF n >= 0 THEN n \div d ELSE -((-n) \div d)

\* Python's round(n / d): to the nearest integer, ties to the even one, d > 0
RoundHalfEven(n, d) ==
    LET q == FloorDiv(n, d)
        r == n - q * d
    IN  IF 2 * r < d THEN q
        ELSE IF 2 * r > d THEN q + 1
        ELSE IF q % 2 = 0 THEN q ELSE q + 1

\* All sequences over S of length 0..n
SeqsUpTo(S, n) == UNION {[1..k -> S] : k \in 0..n}

IsNote(msg) == msg.type \in {"note_on", "note_off"}

----------------------------------------------------------------------------
(* Bounds of the model *)

\* most messages in an input file, all tracks together
MaxMsgs == 2

\* most tracks in an input file (every track holds at least one message)
MaxTracks == 2

\* most requests served in one behaviour
MaxCalls == 2

\* size of the pool the random 8-hex-digit suffix is drawn from
NumUuids == 1

Uuids == 1..NumUuids

\* mido.MidiFile() without arguments
DEFAULT_TICKS_PER_BEAT == 480

NoName == <<>>

----------------------------------------------------------------------------
(* HTTP responses: server.py *)

ok_response(result) == [status |-> 200, ok |-> TRUE, result |-> result]

error_response(code, status_code) ==
    [status |-> status_code, ok |-> FALSE, code |-> code]

\* a variant without the handler for RequestValidationError: the framework's
\* own answer to a request that fails validation is 422
handle_exception_no_validation_handler(exc) ==
    CASE exc = "FileNotFoundError"       -> error_response("FILE_NOT_FOUND", 404)
      [] exc = "ValueError"              -> error_response("INVALID_ARGUMENT", 400)
      [] exc = "RequestValidationError"  -> error_response("UNPROCESSABLE_ENTITY", 422)
      [] OTHER                           -> error_response("INTERNAL_ERROR", 500)

\* the app's exception handlers, by exception class
handle_exception(exc) ==
    CASE exc = "FileNotFoundError"       -> error_response("FILE_NOT_FOUND", 404)
      [] exc = "ValueError"              -> error_response("INVALID_ARGUMENT", 400)
      [] exc = "RequestValidationError"  -> error_response("INVALID_ARGUMENT", 400)
      [] OTHER                           -> error_response("INTERNAL_ERROR", 500)

----------------------------------------------------------------------------
(* midi_ops.py: paths *)

ensure_exists(path) == path \in DOMAIN disk

\* the directories that paths of the model start with; a path without one is
\* relative to the working directory
Directories == {"/output", "/a", "/b"}

\* Path(__file__).parent.parent / "output"
output_dir == <<"/output">>

\* original_path.stem: the file name without its directory
stem(path) == IF Head(path) \in Directories THEN Tail(path) ELSE path

\* one candidate of the retry loop, for the uuid drawn
output_candidate(original_path, suffix, uuid) ==
    output_dir \o stem(original_path) \o <<suffix, uuid>>

\* _generate_output_path returns a candidate that does not exist; the loop
\* draws again while the candidate exists, so the call returns exactly the
\* candidates in this set (and never returns when the set is empty).
generate_output_path(original_path, suffix) ==
    {c \in {output_candidate(original_path, suffix, u) : u \in Uuids} :
        c \notin DOMAIN disk}

----------------------------------------------------------------------------
(* midi_ops.py: transpose *)

\* a variant that forgets the lower clamp
clamp_note_no_floor(note, delta) == Min(127, note + delta)

\* max(0, min(127, msg.note + delta))
clamp_note(note, delta) == Max(0, Min(127, note + delta))

transpose_msg(msg, delta) ==
    IF msg.type \in {"note_on", "note_off"}
    THEN [msg EXCEPT !.note = clamp_note(msg.note, delta)]
    ELSE msg

transpose_midi(midi, delta) ==
    [midi EXCEPT !.tracks =
        [i \in DOMAIN midi.tracks |->
            [midi.tracks[i] EXCEPT !.msgs =
                [k \in DOMAIN midi.tracks[i].msgs |->
                    transpose_msg(midi.tracks[i].msgs[k], delta)]]]]

----------------------------------------------------------------------------
(* midi_ops.py: change_tempo *)

\* a variant that rounds to the nearest integer instead of truncating
scale_tempo_rounding(tempo, ratio) ==
    Max(1, RoundHalfEven(tempo * ratio[2], ratio[1]))

\* a variant that clamps to a minimum of 1000 (a millisecond) instead of 1
scale_tempo_clamp_ms(tempo, ratio) ==
    Max(1000, TruncDiv(tempo * ratio[2], ratio[1]))

\* max(1, int(msg.tempo / ratio)) for ratio = num/den > 0
scale_tempo(tempo, ratio) == Max(1, TruncDiv(tempo * ratio[2], ratio[1]))

has_tempo_meta(midi) ==
    \E i \in DOMAIN midi.tracks :
        \E k \in DOMAIN midi.tracks[i].msgs :
            midi.tracks[i].msgs[k].type = "set_tempo"

scale_tempo_msg(msg, ratio) ==
    IF msg.type = "set_tempo"
    THEN [msg EXCEPT !.tempo = scale_tempo(msg.tempo, ratio)]
    ELSE msg

\* a variant that rounds every delta-time on its own instead of the running
\* position
RECURSIVE rescale_msgs_per_delta(_, _, _, _)
rescale_msgs_per_delta(msgs, ratio, acc, tick_rounded) ==
    IF msgs = <<>> THEN <<>>
    ELSE <<[Head(msgs) EXCEPT !.time = RoundHalfEven(Head(msgs).time * ratio[2], ratio[1])]>>
         \o rescale_msgs_per_delta(Tail(msgs), ratio, acc, tick_rounded)

\* the loop of lines 49-55 over one track: tick_precise is kept as the exact
\* sum of time / ratio, i.e. (sum of time) * den / num; acc is the sum of the
\* delta-times read so far and tick_rounded the last emitted position.
RECURSIVE rescale_msgs(_, _, _, _)
rescale_msgs(msgs, ratio, acc, tick_rounded) ==
    IF msgs = <<>> THEN <<>>
    ELSE LET msg == Head(msgs)
             acc2 == acc + msg.time
             new_tick == RoundHalfEven(acc2 * ratio[2], ratio[1])
             delta_tick == new_tick - tick_rounded
         IN  <<[msg EXCEPT !.time = delta_tick]>>
             \o rescale_msgs(Tail(msgs), ratio, acc2, new_tick)

\* the file handed to save(): lines 35-56
change_tempo_midi(midi, ratio) ==
    IF has_tempo_meta(midi)
    THEN [midi EXCEPT !.tracks =
            [i \in DOMAIN midi.tracks |->
                [midi.tracks[i] EXCEPT !.msgs =
                    [k \in DOMAIN midi.tracks[i].msgs |->
                        scale_tempo_msg(midi.tracks[i].msgs[k], ratio)]]]]
    ELSE [ticks_per_beat |-> DEFAULT_TICKS_PER_BEAT,
          tracks |->
            [i \in DOMAIN midi.tracks |->
                [midi.tracks[i] EXCEPT !.msgs =
                    rescale_msgs(midi.tracks[i].msgs, ratio, 0, 0)]]]

----------------------------------------------------------------------------
(* midi_ops.py: common_to_swing *)

\* time_remap, in ticks: bar is the length of one bar (sec_per_bar) in
\* ticks.  The result is the remapped position times 6, so that the thirds
\* and the half bar stay integers.
time_remap(t, bar) ==
    LET n_bar == TruncDiv(t, bar)
        bar_start == n_bar * bar
        t_in_bar == t - bar_start
    IN  IF 2 * t_in_bar < bar
        THEN 6 * bar_start + 8 * t_in_bar
        ELSE 6 * bar_start + bar + 4 * t_in_bar

\* second2tick(time_remap(old_abs_time)): rounded to an integer tick
swing_tick(old_abs, ticks_per_beat) ==
    RoundHalfEven(time_remap(old_abs, 2 * ticks_per_beat), 6)

\* the loop of lines 121-130 over one track
RECURSIVE swing_msgs(_, _, _, _)
swing_msgs(msgs, ticks_per_beat, old_abs_time, new_ticks_acc) ==
    IF msgs = <<>> THEN <<>>
    ELSE LET msg == Head(msgs)
             old_abs == old_abs_time + msg.time
             new_tick == swing_tick(old_abs, ticks_per_beat)
             new_delta_tick == new_tick - new_ticks_acc
         IN  <<[msg EXCEPT !.time = new_delta_tick]>>
             \o swing_msgs(Tail(msgs), ticks_per_beat, old_abs, new_tick)

\* the file handed to save(): lines 116-130
common_to_swing_midi(midi) ==
    [ticks_per_beat |-> midi.ticks_per_beat,
     tracks |->
        [i \in DOMAIN midi.tracks |->
            [midi.tracks[i] EXCEPT !.msgs =
                swing_msgs(midi.tracks[i].msgs, midi.ticks_per_beat, 0, 0)]]]

----------------------------------------------------------------------------
(* The transform endpoints: server.py lines 105-122 with the functions of   *)
(* midi_ops.py they call.  A call is logged with its request and response;  *)
(* a successful call writes exactly one new file.                           *)

Served(op, path, arg, response) ==
    calls' = Append(calls, [op |-> op, path |-> path, arg |-> arg,
                            response |-> response])

MissingPath == <<"missing">>

RequestPaths == DOMAIN disk \cup {MissingPath}

\* ChangeTempoRequest: ratio: float = Field(default=1.0, gt=0)
ChangeTempoRequest_valid(ratio) == ratio[1] > 0

\* change_tempo, lines 31-59: "FileNotFoundError", "ValueError", or the file
\* to save
change_tempo(path, ratio) ==
    IF ~ensure_exists(path) THEN [raised |-> "FileNotFoundError"]
    ELSE IF ratio[1] <= 0 THEN [raised |-> "ValueError"]
    ELSE [raised |-> "", midi |-> change_tempo_midi(disk[path], ratio)]

\* transpose, lines 62-71
transpose(path, delta) ==
    IF ~ensure_exists(path) THEN [raised |-> "FileNotFoundError"]
    ELSE [raised |-> "", midi |-> transpose_midi(disk[path], delta)]

\* common_to_swing, lines 93-133
common_to_swing(path) ==
    IF ~ensure_exists(path) THEN [raised |-> "FileNotFoundError"]
    ELSE [raised |-> "", midi |-> common_to_swing_midi(disk[path])]

\* the rest of a transform after its computation: pick the output path, save,
\* answer; or answer with the error raised
Finish(op, suffix, path, arg, outcome) ==
    IF outcome.raised # ""
    THEN /\ Served(op, path, arg, handle_exception(outcome.raised))
         /\ UNCHANGED disk
    ELSE \E output_path \in generate_output_path(path, suffix) :
            /\ disk' = (output_path :> outcome.midi) @@ disk
            /\ Served(op, path, arg,
                      ok_response([path_to_output_midi |-> output_path]))

----------------------------------------------------------------------------
(* Input files *)

NoteOn(note, velocity, time) ==
    [type |-> "note_on", time |-> time, channel |-> 0, note |-> note,
     velocity |-> velocity]

NoteOff(note, time) ==
    [type |-> "note_off", time |-> time, channel |-> 0, note |-> note,
     velocity |-> 64]

SetTempo(tempo, time) == [type |-> "set_tempo", time |-> time, tempo |-> tempo]

Marker(time) == [type |-> "marker", time |-> time]

RECURSIVE TotalLen(_)
TotalLen(ss) == IF ss = <<>> THEN 0 ELSE Len(Head(ss)) + TotalLen(Tail(ss))

\* the message lists of the tracks of a file: 1..MaxTracks non-empty tracks
\* over the alphabet A, at most MaxMsgs messages in all
TrackLists(A) ==
    {ts \in UNION {[1..n -> SeqsUpTo(A, MaxMsgs) \ {<<>>}] : n \in 1..MaxTracks} :
        TotalLen(ts) <= MaxMsgs}

FilesOver(A, resolutions) ==
    {[ticks_per_beat |-> r,
      tracks |-> [i \in DOMAIN ts |-> [name |-> NoName, msgs |-> ts[i]]]] :
        ts \in TrackLists(A), r \in resolutions}

InputPath == <<"in">>

----------------------------------------------------------------------------
(* The tempo service: change_tempo requests, an output may be the input of   *)
(* a later request                                                           *)

TempoMsgs ==
    {SetTempo(3, 0), SetTempo(500003, 0), NoteOn(60, 64, 1), NoteOff(60, 3)}

\* ratios as <<numerator, denominator>>: 1/4, 4, 0 and -1
Ratios == {<<1, 4>>, <<4, 1>>, <<0, 1>>, <<-1, 1>>}

InitTempo ==
    /\ disk \in {(InputPath :> f) : f \in FilesOver(TempoMsgs, {480})}
    /\ calls = <<>>
    /\ input = "none"
    /\ output = NotRun

\* POST /v1/midi/change-tempo: the request model is validated first, then
\* change_tempo runs
ChangeTempo ==
    /\ Len(calls) < MaxCalls
    /\ \E path \in RequestPaths, ratio \in Ratios :
        IF ~ChangeTempoRequest_valid(ratio)
        THEN /\ Served("change_tempo", path, ratio,
                       handle_exception("RequestValidationError"))
             /\ UNCHANGED disk
        ELSE Finish("change_tempo", "tempo", path, ratio, change_tempo(path, ratio))
    /\ UNCHANGED <<input, output>>

NextTempo == ChangeTempo

SpecTempo == InitTempo /\ [][NextTempo]_vars

----------------------------------------------------------------------------
(* Claims about change_tempo *)

Succeeded(c) == c.response.ok

OutputOf(c) == disk[c.response.result.path_to_output_midi]

\* v is value / ratio truncated to an integer, and at least 1
IsScaledTempo(v, value, ratio) ==
    \/ v * ratio[1] <= value * ratio[2] /\ (v + 1) * ratio[1] > value * ratio[2] /\ v >= 1
    \/ v = 1 /\ value * ratio[2] < ratio[1]

SameShape(a, b) ==
    /\ Len(a.tracks) = Len(b.tracks)
    /\ \A i \in DOMAIN a.tracks : Len(a.tracks[i].msgs) = Len(b.tracks[i].msgs)

\* C2: a successful ChangeTempo with ratio > 0 on a file that holds a tempo
\* event writes a file in which every tempo event carries
\* max(1, trunc(old tempo / ratio)) and every other message, every delta-time
\* and the resolution are those of the input.
C2_TempoScaled ==
    \A n \in DOMAIN calls :
        LET c == calls[n] IN
        (c.op = "change_tempo" /\ Succeeded(c) /\ has_tempo_meta(disk[c.path])) =>
            LET old == disk[c.path]
                new == OutputOf(c)
            IN  /\ c.arg[1] > 0
                /\ SameShape(old, new)
                /\ new.ticks_per_beat = old.ticks_per_beat
                /\ \A i \in DOMAIN old.tracks : \A k \in DOMAIN old.tracks[i].msgs :
                    LET m == old.tracks[i].msgs[k]
                        m2 == new.tracks[i].msgs[k]
                    IN  IF m.type = "set_tempo"
                        THEN /\ m2.type = "set_tempo"
                             /\ m2.time = m.time
                             /\ IsScaledTempo(m2.tempo, m.tempo, c.arg)
                        ELSE m2 = m

\* a tempo 500003 scaled by ratio 4 (125000.75 truncated to 125000) next to
\* a note event that is left alone
C2_Witness ==
    \E n \in DOMAIN calls :
        LET c == calls[n] IN
        /\ c.op = "change_tempo" /\ Succeeded(c) /\ c.arg = <<4, 1>>
        /\ \E i \in DOMAIN disk[c.path].tracks :
            disk[c.path].tracks[i].msgs[1] = SetTempo(500003, 0)
        /\ \E i \in DOMAIN disk[c.path].tracks :
            disk[c.path].tracks[i].msgs[1].type = "note_on"
        /\ \E i \in DOMAIN OutputOf(c).tracks :
            OutputOf(c).tracks[i].msgs[1] = SetTempo(125000, 0)

Inverse(ratio) == <<ratio[2], ratio[1]>>

\* the pairs of calls of a round trip: call n scales a file that holds a
\* tempo event by r, call m scales the output of call n by 1/r
RoundTrips ==
    {p \in (DOMAIN calls) \X (DOMAIN calls) :
        LET c1 == calls[p[1]]
            c2 == calls[p[2]]
        IN  /\ p[1] < p[2]
            /\ c1.op = "change_tempo" /\ Succeeded(c1)
            /\ c2.op = "change_tempo" /\ Succeeded(c2)
            /\ has_tempo_meta(disk[c1.path])
            /\ c2.path = c1.response.result.path_to_output_midi
            /\ c2.arg = Inverse(c1.arg)}

\* the largest distance, over the tempo events, between the tempo before the
\* round trip p and after it, as the set of the distances
RoundTripErrors(p) ==
    LET old == disk[calls[p[1]].path]
        new == OutputOf(calls[p[2]])
    IN  {Abs(new.tracks[i].msgs[k].tempo - old.tracks[i].msgs[k].tempo) :
            <<i, k>> \in {q \in (DOMAIN old.tracks) \X (1..MaxMsgs + 1) :
                            /\ q[2] \in DOMAIN old.tracks[q[1]].msgs
                            /\ old.tracks[q[1]].msgs[q[2]].type = "set_tempo"}}

\* C3 as stated: ChangeTempo by r and then by 1/r restores every tempo value
\* within 1 microsecond, for every r > 0.
C3_RoundTripWithinOne ==
    \A p \in RoundTrips : \A e \in RoundTripErrors(p) : e <= 1

\* C3 amended: the round trip restores every tempo value within 1 microsecond
\* when r <= 1, and to less than r + 1 microseconds when r > 1.
C3_RoundTripBound ==
    \A p \in RoundTrips :
        LET r == calls[p[1]].arg IN
        \A e \in RoundTripErrors(p) :
            IF r[1] <= r[2] THEN e <= 1 ELSE e * r[2] < r[1] + r[2]

\* a round trip with r = 4 that ends more than 1 microsecond away from the
\* tempo it started from
C3_Witness ==
    \E p \in RoundTrips :
        calls[p[1]].arg = <<4, 1>> /\ \E e \in RoundTripErrors(p) : e > 1

\* a round trip with r = 1/4 has been made
C3_WitnessSlow == \E p \in RoundTrips : calls[p[1]].arg = <<1, 4>>

\* C10: a ChangeTempo request with ratio <= 0 for an existing input file is
\* answered 400 INVALID_ARGUMENT and the file system is left as it was.
C10_InvalidRatio ==
    [][\A c \in {calls'[n] : n \in DOMAIN calls' \ DOMAIN calls} :
        (c.op = "change_tempo" /\ c.arg[1] <= 0 /\ c.path \in DOMAIN disk) =>
            /\ c.response.status = 400
            /\ ~c.response.ok
            /\ c.response.code = "INVALID_ARGUMENT"
            /\ disk' = disk]_vars

\* ratio 0 and ratio -1 have both been refused for the input file
C10_Witness ==
    \A r \in {<<0, 1>>, <<-1, 1>>} :
        \E n \in DOMAIN calls :
            /\ calls[n].op = "change_tempo" /\ calls[n].arg = r
            /\ calls[n].path = InputPath
            /\ calls[n].response.status = 400

----------------------------------------------------------------------------
(* The transpose service *)

TransposeMsgs ==
    {NoteOn(0, 64, 0), NoteOn(127, 64, 1), NoteOff(60, 2), SetTempo(500000, 0)}

Deltas == {-128, -1, 12}

InitTranspose ==
    /\ disk \in {(InputPath :> f) : f \in FilesOver(TransposeMsgs, {480})}
    /\ calls = <<>>
    /\ input = "none"
    /\ output = NotRun

\* POST /v1/midi/transpose
Transpose ==
    /\ Len(calls) < MaxCalls
    /\ \E path \in RequestPaths, delta \in Deltas :
        Finish("transpose", "transpose", path, delta, transpose(path, delta))
    /\ UNCHANGED <<input, output>>

NextTranspose == Transpose

SpecTranspose == InitTranspose /\ [][NextTranspose]_vars

\* n2 is n + delta brought into 0..127
IsClamped(n2, n, delta) ==
    /\ n2 \in 0..127
    /\ \/ n2 = n + delta
       \/ n2 = 0 /\ n + delta < 0
       \/ n2 = 127 /\ n + delta > 127

\* C1: a successful Transpose writes a file with the same tracks and the same
\* messages in the same order, in which every note-on/note-off carries
\* clamp(old note + delta, 0, 127), so a note in 0..127, with its delta-time,
\* velocity and channel kept, and every other message is the input's.
C1_Transposed ==
    \A n \in DOMAIN calls :
        LET c == calls[n] IN
        (c.op = "transpose" /\ Succeeded(c)) =>
            LET old == disk[c.path]
                new == OutputOf(c)
            IN  /\ SameShape(old, new)
                /\ new.ticks_per_beat = old.ticks_per_beat
                /\ \A i \in DOMAIN old.tracks :
                    /\ new.tracks[i].name = old.tracks[i].name
                    /\ \A k \in DOMAIN old.tracks[i].msgs :
                        LET m == old.tracks[i].msgs[k]
                            m2 == new.tracks[i].msgs[k]
                        IN  IF m.type \in {"note_on", "note_off"}
                            THEN /\ m2.type = m.type
                                 /\ m2.time = m.time
                                 /\ m2.velocity = m.velocity
                                 /\ m2.channel = m.channel
                                 /\ IsClamped(m2.note, m.note, c.arg)
                            ELSE m2 = m

\* a note 0 transposed by -1 stays 0 while a tempo event is copied
C1_Witness ==
    \E n \in DOMAIN calls :
        LET c == calls[n] IN
        /\ c.op = "transpose" /\ Succeeded(c) /\ c.arg = -1
        /\ \E i \in DOMAIN disk[c.path].tracks :
            /\ disk[c.path].tracks[i].msgs[1] = NoteOn(0, 64, 0)
            /\ OutputOf(c).tracks[i].msgs[1] = NoteOn(0, 64, 0)
        /\ \E i \in DOMAIN disk[c.path].tracks :
            /\ disk[c.path].tracks[i].msgs[1].type = "set_tempo"
            /\ OutputOf(c).tracks[i].msgs[1] = disk[c.path].tracks[i].msgs[1]

----------------------------------------------------------------------------
(* The swing service *)

SwingMsgs == {NoteOn(60, 64, 479), NoteOff(60, 1), NoteOn(62, 64, 480), Marker(0)}

InitSwing ==
    /\ disk \in {(InputPath :> f) : f \in FilesOver(SwingMsgs, {480})}
    /\ calls = <<>>
    /\ input = "none"
    /\ output = NotRun

\* POST /v1/midi/common-to-swing
CommonToSwing ==
    /\ Len(calls) < MaxCalls
    /\ \E path \in RequestPaths :
        Finish("common_to_swing", "swing", path, "none", common_to_swing(path))
    /\ UNCHANGED <<input, output>>

NextSwing == CommonToSwing

SpecSwing == InitSwing /\ [][NextSwing]_vars

NonNegativeTimes(midi) ==
    \A i \in DOMAIN midi.tracks : \A k \in DOMAIN midi.tracks[i].msgs :
        midi.tracks[i].msgs[k].time >= 0

\* C4: SwingWarp of a file (whose delta-times are non-negative) writes a file
\* whose tracks have as many messages as the input's tracks and in which no
\* delta-time is negative.
C4_SwingCountAndNonNegative ==
    \A n \in DOMAIN calls :
        LET c == calls[n] IN
        (c.op = "common_to_swing" /\ Succeeded(c) /\ NonNegativeTimes(disk[c.path])) =>
            /\ SameShape(disk[c.path], OutputOf(c))
            /\ NonNegativeTimes(OutputOf(c))

\* what does hold of the code: the message count of every track is kept
C4_SwingCount ==
    \A n \in DOMAIN calls :
        LET c == calls[n] IN
        (c.op = "common_to_swing" /\ Succeeded(c)) =>
            SameShape(disk[c.path], OutputOf(c))

----------------------------------------------------------------------------
(* midi_ops.py: extract_pitch_sequence *)

RECURSIVE GCD(_, _)
GCD(a, b) == IF b = 0 THEN a ELSE GCD(b, a % b)

\* a rational <<numerator, denominator>> in lowest terms
Reduce(q) == LET g == GCD(q[1], q[2]) IN IF g = 0 THEN q ELSE <<q[1] \div g, q[2] \div g>>

RatGeq(a, b) == a[1] * b[2] >= b[1] * a[2]

RatGt(a, b) == a[1] * b[2] > b[1] * a[2]

\* mido.tick2second(tick, ticks_per_beat, tempo): tick * tempo * 1e-6 /
\* ticks_per_beat seconds, as a rational
tick2second(tick, ticks_per_beat, tempo) ==
    LET scale == Reduce(<<tempo, ticks_per_beat * 1000000>>)
    IN  Reduce(<<tick * scale[1], scale[2]>>)

\* line 196: "assuming 120bpm, 480ppq"
ASSUMED_TICKS_PER_BEAT == 480

ASSUMED_TEMPO == 500000

\* monophonicity_tolerance_sec: float = 0.1
DEFAULT_TOLERANCE == <<1, 10>>

\* the value a missing result is given
None == [is_none |-> TRUE]

Some(sequence) == [is_none |-> FALSE, sequence |-> sequence]

\* abs_tick is kept in ticks; the seconds between two positions are
\* tick2second of their distance (the code sums the seconds of every
\* delta-time instead, which is the same number in exact arithmetic)
elapsed_sec(abs_tick, other_start_time) ==
    tick2second(abs_tick - other_start_time, ASSUMED_TICKS_PER_BEAT, ASSUMED_TEMPO)

\* a variant of the overlap test with > in place of >=
overlap_exceeds_strict(abs_tick, other_start_time, tolerance) ==
    RatGt(elapsed_sec(abs_tick, other_start_time), tolerance)

\* line 208: abs_tick - other_start_time >= monophonicity_tolerance_sec
overlap_exceeds(abs_tick, other_start_time, tolerance) ==
    RatGeq(elapsed_sec(abs_tick, other_start_time), tolerance)

IsOnset(msg) == msg.type = "note_on" /\ msg.velocity > 0

IsRelease(msg) ==
    msg.type = "note_off" \/ (msg.type = "note_on" /\ msg.velocity = 0)

\* the loop of lines 195-209: active_notes is a function from the active
\* note numbers to their onset positions
RECURSIVE extract_loop(_, _, _, _, _)
extract_loop(msgs, tolerance, sequence, active_notes, abs_tick0) ==
    IF msgs = <<>> THEN Some(sequence)
    ELSE
    LET msg == Head(msgs)
        abs_tick == abs_tick0 + msg.time
    IN  IF IsOnset(msg)
        THEN IF msg.note \in DOMAIN active_notes
             THEN extract_loop(Tail(msgs), tolerance, sequence, active_notes, abs_tick)
             ELSE extract_loop(Tail(msgs), tolerance, Append(sequence, msg.note),
                               (msg.note :> abs_tick) @@ active_notes, abs_tick)
        ELSE IF IsRelease(msg)
        THEN IF msg.note \notin DOMAIN active_notes
             THEN extract_loop(Tail(msgs), tolerance, sequence, active_notes, abs_tick)
             ELSE LET rest == [n \in DOMAIN active_notes \ {msg.note} |-> active_notes[n]]
                  IN  IF \E n \in DOMAIN rest : overlap_exceeds(abs_tick, rest[n], tolerance)
                      THEN None
                      ELSE extract_loop(Tail(msgs), tolerance, sequence, rest, abs_tick)
        ELSE extract_loop(Tail(msgs), tolerance, sequence, active_notes, abs_tick)

extract_pitch_sequence(track_msgs, monophonicity_tolerance_sec) ==
    extract_loop(track_msgs, monophonicity_tolerance_sec, <<>>, <<>>, 0)

----------------------------------------------------------------------------
(* extract_pitch_sequence applied to one track *)

\* most messages of the track
MaxTrackLen == 4

PitchMsgs ==
    {NoteOn(60, 64, 0), NoteOn(62, 64, 0), NoteOn(62, 64, 96), NoteOff(60, 48),
     NoteOff(60, 96), NoteOff(62, 96), NoteOn(60, 0, 96), Marker(96)}

\* the tolerances the program calls it with: 0.1 and 99999.0 seconds
Tolerances == {DEFAULT_TOLERANCE, <<99999, 1>>}

InitPitch ==
    /\ disk = <<>>
    /\ calls = <<>>
    /\ input \in {[track |-> t, tolerance |-> tol] :
                    t \in SeqsUpTo(PitchMsgs, MaxTrackLen), tol \in Tolerances}
    /\ output = NotRun

ExtractPitchSequence ==
    /\ output = NotRun
    /\ output' = extract_pitch_sequence(input.track, input.tolerance)
    /\ UNCHANGED <<disk, calls, input>>

NextPitch == ExtractPitchSequence

SpecPitch == InitPitch /\ [][NextPitch]_vars

----------------------------------------------------------------------------
(* Claims about extract_pitch_sequence, stated on the track itself *)

\* ticks in one second at the assumed 120 bpm and 480 ticks per beat
TicksPerSecond == 960

RECURSIVE AbsTick(_, _)
AbsTick(msgs, k) == IF k = 0 THEN 0 ELSE AbsTick(msgs, k - 1) + msgs[k].time

NoteEvents(msgs, p, k) ==
    {j \in 1..k : (IsOnset(msgs[j]) \/ IsRelease(msgs[j])) /\ msgs[j].note = p}

SetMax(S) == CHOOSE x \in S : \A y \in S : y <= x

SetMin(S) == CHOOSE x \in S : \A y \in S : x <= y

\* note number p is sounding after the first k messages
Sounding(msgs, p, k) ==
    LET js == NoteEvents(msgs, p, k) IN js # {} /\ IsOnset(msgs[SetMax(js)])

\* the message that started the sounding note p, seen after k messages
OnsetIndex(msgs, p, k) ==
    SetMin({j \in NoteEvents(msgs, p, k) :
              \A i \in NoteEvents(msgs, p, k) : i >= j => IsOnset(msgs[i])})

NoteNumbers(msgs) == {msgs[j].note : j \in {i \in DOMAIN msgs : IsNote(msgs[i])}}

\* the notes of a track: <<note number, first message, position where it
\* starts, position where it ends, whether a release ends it>>; a note that
\* is never released ends with the track
Notes(msgs) ==
    {LET offs == {i \in j + 1..Len(msgs) :
                    IsRelease(msgs[i]) /\ msgs[i].note = msgs[j].note}
     IN  <<msgs[j].note, j, AbsTick(msgs, j),
           IF offs = {} THEN AbsTick(msgs, Len(msgs)) ELSE AbsTick(msgs, SetMin(offs)),
           offs # {}>> :
        j \in {i \in DOMAIN msgs :
                 IsOnset(msgs[i]) /\ ~Sounding(msgs, msgs[i].note, i - 1)}}

\* ticks during which both notes sound
Overlap(a, b) == Min(a[4], b[4]) - Max(a[3], b[3])

AtLeast(ticks, tolerance) == ticks * tolerance[2] >= tolerance[1] * TicksPerSecond

\* two notes of different note numbers sound together for the tolerance or longer
Polyphonic(msgs, tolerance) ==
    \E a \in Notes(msgs), b \in Notes(msgs) :
        a[1] # b[1] /\ AtLeast(Overlap(a, b), tolerance)

\* the same, and the note that ends first is ended by a release
PolyphonicUntilRelease(msgs, tolerance) ==
    \E a \in Notes(msgs), b \in Notes(msgs) :
        a[1] # b[1] /\ AtLeast(Overlap(a, b), tolerance) /\ a[4] <= b[4] /\ a[5]

\* no note starts while a note is sounding
NeverOverlap(msgs) ==
    \A j \in DOMAIN msgs :
        IsOnset(msgs[j]) => \A p \in NoteNumbers(msgs) : ~Sounding(msgs, p, j - 1)

PickNotes(msgs, Keep(_)) ==
    LET idx == SelectSeq([j \in DOMAIN msgs |-> j], Keep)
    IN  [i \in DOMAIN idx |-> msgs[idx[i]].note]

AllNoteOns(msgs) == PickNotes(msgs, LAMBDA j : IsOnset(msgs[j]))

\* the note-ons of a note number that is not sounding already
Onsets(msgs) ==
    PickNotes(msgs, LAMBDA j : IsOnset(msgs[j]) /\ ~Sounding(msgs, msgs[j].note, j - 1))

\* message k releases a sounding note while another note number, started
\* the tolerance or longer before, is sounding
LateRelease(msgs, tolerance, k) ==
    /\ IsRelease(msgs[k])
    /\ Sounding(msgs, msgs[k].note, k - 1)
    /\ \E q \in NoteNumbers(msgs) \ {msgs[k].note} :
        /\ Sounding(msgs, q, k - 1)
        /\ AtLeast(AbsTick(msgs, k) - AbsTick(msgs, OnsetIndex(msgs, q, k - 1)), tolerance)

ExtractionCharacterised ==
    output # NotRun =>
        /\ output = None <=>
            \E k \in DOMAIN input.track : LateRelease(input.track, input.tolerance, k)
        /\ output # None => output = Some(Onsets(input.track))

C5_WitnessUnreleased ==
    /\ input.track = <<NoteOn(60, 64, 0), NoteOn(62, 64, 0), Marker(96)>>
    /\ input.tolerance = DEFAULT_TOLERANCE
    /\ output = Some(<<60, 62>>)

\* two notes one after the other: both onsets
C5_WitnessSequential ==
    /\ input.track = <<NoteOn(60, 64, 0), NoteOff(60, 96), NoteOn(62, 64, 0), NoteOff(62, 96)>>
    /\ output = Some(<<60, 62>>)

----------------------------------------------------------------------------
(* midi_ops.py: extract_melody_track *)

UpperCase == <<"A", "B", "C", "D", "E", "F", "G", "H", "I", "J", "K", "L", "M",
               "N", "O", "P", "Q", "R", "S", "T", "U", "V", "W", "X", "Y", "Z">>

LowerCase == <<"a", "b", "c", "d", "e", "f", "g", "h", "i", "j", "k", "l", "m",
               "n", "o", "p", "q", "r", "s", "t", "u", "v", "w", "x", "y", "z">>

\* str.lower(), on a name given as a sequence of characters
lower(name) ==
    [i \in DOMAIN name |->
        IF \E k \in DOMAIN UpperCase : UpperCase[k] = name[i]
        THEN LowerCase[CHOOSE k \in DOMAIN UpperCase : UpperCase[k] = name[i]]
        ELSE name[i]]

\* sub in name
contains(name, sub) ==
    \E off \in 0..(Len(name) - Len(sub)) :
        \A i \in DOMAIN sub : name[off + i] = sub[i]

Str_melody == <<"m", "e", "l", "o", "d", "y">>

Str_mel == <<"m", "e", "l">>

Str_lead == <<"l", "e", "a", "d">>

Str_MELODY == <<"M", "E", "L", "O", "D", "Y">>

\* a variant that tests the name as written, not lower-cased
is_melody_name_case_sensitive(track) ==
    contains(track.name, Str_melody) \/ track.name = Str_mel

\* line 152, on (t.name or '').lower()
is_melody_name(track) ==
    contains(lower(track.name), Str_melody) \/ lower(track.name) = Str_mel

\* line 164
is_lead_name(track) == contains(lower(track.name), Str_lead)

\* sorted(key=len, reverse=True) is stable: insert x behind every sequence
\* that is at least as long
RECURSIVE insert_by_len(_, _)
insert_by_len(sorted, x) ==
    IF sorted = <<>> THEN <<x>>
    ELSE IF Len(Head(sorted)) >= Len(x)
         THEN <<Head(sorted)>> \o insert_by_len(Tail(sorted), x)
         ELSE <<x>> \o sorted

RECURSIVE sort_by_len_desc(_)
sort_by_len_desc(seqs) ==
    IF seqs = <<>> THEN <<>>
    ELSE insert_by_len(sort_by_len_desc(SubSeq(seqs, 1, Len(seqs) - 1)),
                       seqs[Len(seqs)])

\* try_tracks, lines 136-146: None, or the longest strong candidate
try_tracks(tracks) ==
    LET t_s == [i \in DOMAIN tracks |->
                    extract_pitch_sequence(tracks[i].msgs, DEFAULT_TOLERANCE)]
        strong == SelectSeq(t_s, LAMBDA r : r # None /\ Len(r.sequence) > 3)
        strong_candidates == [i \in DOMAIN strong |-> strong[i].sequence]
    IN  IF strong_candidates = <<>> THEN None
        ELSE Some(sort_by_len_desc(strong_candidates)[1])

\* lines 177-185: the track named exactly MELODY, if there is exactly one
melody_fallback(tracks) ==
    LET named == SelectSeq(tracks, LAMBDA t : t.name = Str_MELODY)
    IN  IF Len(named) # 1 THEN [raised |-> "", sequence |-> <<>>]
        ELSE LET results == extract_pitch_sequence(named[1].msgs, <<99999, 1>>)
             IN  IF results = None THEN [raised |-> "AssertionError"]
                 ELSE [raised |-> "", sequence |-> results.sequence]

\* extract_melody_track, lines 135-185: the sequence returned, or the
\* exception raised
extract_melody_track(midi) ==
    LET tracks == midi.tracks
        candidates1 == SelectSeq(tracks, is_melody_name)
        remaining1 == SelectSeq(tracks, LAMBDA t : ~is_melody_name(t))
        candidates2 == SelectSeq(remaining1, is_lead_name)
        remaining2 == SelectSeq(remaining1, LAMBDA t : ~is_lead_name(t))
        results1 == try_tracks(candidates1)
        results2 == try_tracks(candidates2)
        results3 == try_tracks(remaining2)
    IN  IF results1 # None THEN [raised |-> "", sequence |-> results1.sequence]
        ELSE IF results2 # None THEN [raised |-> "", sequence |-> results2.sequence]
        ELSE IF results3 # None THEN [raised |-> "", sequence |-> results3.sequence]
        ELSE melody_fallback(tracks)

----------------------------------------------------------------------------
(* extract_melody_track applied to one file *)

\* most notes in a track of these files
MaxNotes == 5

\* a track of n notes from base upwards, each released before the next starts
MonoTrack(base, n) ==
    [k \in 1..2 * n |->
        IF k % 2 = 1 THEN NoteOn(base + (k - 1) \div 2, 64, 0)
        ELSE NoteOff(base + (k - 2) \div 2, 480)]

\* a track of n notes started together and released one after the other
ChordTrack(base, n) ==
    [k \in 1..2 * n |->
        IF k <= n THEN NoteOn(base + k - 1, 64, 0) ELSE NoteOff(base + k - n - 1, 480)]

Str_Lead == <<"L", "e", "a", "d">>

Str_piano == <<"p", "i", "a", "n", "o">>

TrackNames == {Str_MELODY, Str_mel, Str_Lead, Str_piano}

\* the description of a track: its name, its shape and its number of notes
TrackShapes ==
    [name : TrackNames, shape : {"mono", "chord"}, notes : 3..MaxNotes]

\* the track described by d at position i of a file: its notes go up from a
\* base of the position's own, so that no two tracks of a file hold the same
\* melody
TrackAt(i, d) ==
    [name |-> d.name,
     msgs |-> IF d.shape = "mono" THEN MonoTrack(48 + 12 * i, d.notes)
              ELSE ChordTrack(48 + 12 * i, d.notes)]

\* the file of the track descriptions ds
MelodyFile(ds) ==
    [ticks_per_beat |-> 480, tracks |-> [i \in DOMAIN ds |-> TrackAt(i, ds[i])]]

InitMelody ==
    /\ disk = <<>>
    /\ calls = <<>>
    /\ input \in {MelodyFile(ds) : ds \in UNION {[1..n -> TrackShapes] : n \in 1..MaxTracks}}
    /\ output = NotRun

ExtractMelodyTrack ==
    /\ output = NotRun
    /\ output' = extract_melody_track(input)
    /\ UNCHANGED <<disk, calls, input>>

NextMelody == ExtractMelodyTrack

SpecMelody == InitMelody /\ [][NextMelody]_vars

\* the stage a name belongs to, name by name
StageOfName(name) ==
    CASE name = Str_MELODY -> 1
      [] name = Str_mel    -> 1
      [] name = Str_Lead   -> 2
      [] name = Str_piano  -> 3

\* the extraction of every track at tolerance 0.1 s
Extractions(midi) ==
    [i \in DOMAIN midi.tracks |->
        extract_pitch_sequence(midi.tracks[i].msgs, DEFAULT_TOLERANCE)]

\* an extraction is usable: non-null and longer than 3
Usable(r) == r # None /\ Len(r.sequence) > 3

\* track i is the one the cascade takes: usable, of the earliest stage that
\* has a usable track, the longest of that stage, the earliest of the longest
Chosen(midi, ex, i) ==
    /\ Usable(ex[i])
    /\ \A j \in DOMAIN midi.tracks :
        Usable(ex[j]) =>
            LET si == StageOfName(midi.tracks[i].name)
                sj == StageOfName(midi.tracks[j].name)
                li == Len(ex[i].sequence)
                lj == Len(ex[j].sequence)
            IN  \/ si < sj
                \/ si = sj /\ li > lj
                \/ si = sj /\ li = lj /\ i <= j

\* C6: when some track is usable, the result is the sequence of the track of
\* the earliest stage with a usable track, the longest of that stage and the
\* earliest among equally long ones; usable tracks of later stages do not
\* count.
C6_Cascade ==
    output # NotRun =>
        LET ex == Extractions(input) IN
        \A i \in DOMAIN input.tracks :
            Chosen(input, ex, i) =>
                output = [raised |-> "", sequence |-> ex[i].sequence]

\* "piano" before "MELODY", both monophonic with 5 notes: the MELODY track's
\* sequence is returned
C6_Witness ==
    /\ Len(input.tracks) = 2
    /\ input.tracks[1] = [name |-> Str_piano, msgs |-> MonoTrack(60, 5)]
    /\ input.tracks[2] = [name |-> Str_MELODY, msgs |-> MonoTrack(72, 5)]
    /\ output = [raised |-> "", sequence |-> <<72, 73, 74, 75, 76>>]

\* two usable tracks of one stage, the later one longer: the longer is taken
C6_WitnessLongest ==
    /\ Len(input.tracks) = 2
    /\ input.tracks[1] = [name |-> Str_piano, msgs |-> MonoTrack(60, 4)]
    /\ input.tracks[2] = [name |-> Str_piano, msgs |-> MonoTrack(72, 5)]
    /\ output = [raised |-> "", sequence |-> <<72, 73, 74, 75, 76>>]

\* two usable tracks of one stage and one length: the earlier is taken
C6_WitnessTie ==
    /\ Len(input.tracks) = 2
    /\ input.tracks[1] = [name |-> Str_Lead, msgs |-> MonoTrack(60, 4)]
    /\ input.tracks[2] = [name |-> Str_Lead, msgs |-> MonoTrack(72, 4)]
    /\ output = [raised |-> "", sequence |-> <<60, 61, 62, 63>>]

----------------------------------------------------------------------------
(* index_db.py and the retrieval endpoint of server.py *)

\* index_db.py line 16
INDEX_FILENAME == "maestro_index.json"

\* the names bound at module level in server.py: its imports (lines 7-24)
\* and its own definitions
server_globals ==
    {"json", "Path", "Any", "mido", "uvicorn", "FastAPI", "Request", "status",
     "JSONResponse", "RequestValidationError", "BaseModel", "Field", "PORT",
     "change_tempo", "common_to_swing", "extract_pitch_sequence", "transpose",
     "ChangeTempoRequest", "TransposeRequest", "CommonToSwingRequest",
     "HardMatchRequest", "ok_response", "error_response", "app",
     "handle_file_not_found", "handle_value_error", "handle_validation_error",
     "handle_exception", "change_tempo_endpoint", "transpose_endpoint",
     "swing_endpoint", "_load_index", "_query_sequence", "_contains_subsequence",
     "hard_match_endpoint", "run"}

\* what a path can hold besides a MIDI file
Dir == [kind |-> "dir"]

\* a file that mido.MidiFile cannot parse
Corrupt == [kind |-> "corrupt"]

is_dir(path) == path \in DOMAIN disk /\ disk[path] = Dir

\* database_root / "maestro" / "2004" / the k-th file name in sorted order
MidiPath(database_root, k) == database_root \o <<"maestro", "2004", k>>

\* most files in the database
MaxDbFiles == 3

\* the sorted *.mid and *.midi paths of the year directories
midi_paths(database_root) ==
    LET ks == {k \in 1..MaxDbFiles : MidiPath(database_root, k) \in DOMAIN disk}
    IN  [i \in 1..Cardinality(ks) |->
            MidiPath(database_root,
                     CHOOSE k \in ks : Cardinality({j \in ks : j < k}) = i - 1)]

\* the loop of build_index, lines 28-44, from the i-th path on: the exception
\* that ends it, or the entries and the two counters
RECURSIVE build_loop(_, _, _, _, _)
build_loop(paths, i, entries, n_ok, n_failed) ==
    IF i > Len(paths)
    THEN [raised |-> "", entries |-> entries, n_ok |-> n_ok, n_failed |-> n_failed]
    ELSE IF disk[paths[i]] = Corrupt
    THEN [raised |-> "ParseError"]
    ELSE LET melody == extract_melody_track(disk[paths[i]])
         IN  IF melody.raised # "" THEN [raised |-> melody.raised]
             ELSE IF melody.sequence # <<>>
             THEN build_loop(paths, i + 1,
                             Append(entries, [path |-> paths[i],
                                              melody_sequence |-> melody.sequence]),
                             n_ok + 1, n_failed)
             ELSE build_loop(paths, i + 1, entries, n_ok, n_failed + 1)

\* build_index, lines 19-51
build_index(database_root) ==
    IF ~is_dir(database_root \o <<"maestro">>) THEN [raised |-> "FileNotFoundError"]
    ELSE build_loop(midi_paths(database_root), 1, <<>>, 0, 0)

index_path_of(database_root) == database_root \o <<"maestro", INDEX_FILENAME>>

\* _load_index, lines 125-129: the name INDEX_FILENAME is looked up in the
\* globals of server.py when line 126 runs
load_index(database_root) ==
    IF "INDEX_FILENAME" \notin server_globals THEN [raised |-> "NameError"]
    ELSE IF index_path_of(database_root) \notin DOMAIN disk
    THEN [raised |-> "FileNotFoundError"]
    ELSE [raised |-> "", index_data |-> disk[index_path_of(database_root)]]

\* _query_sequence, lines 132-138: the first non-empty extraction
query_sequence(path) ==
    IF disk[path] = Corrupt THEN [raised |-> "ParseError"]
    ELSE LET found == SelectSeq(
                [i \in DOMAIN disk[path].tracks |->
                    extract_pitch_sequence(disk[path].tracks[i].msgs, DEFAULT_TOLERANCE)],
                LAMBDA r : r # None /\ r.sequence # <<>>)
         IN  [raised |-> "",
              sequence |-> IF found = <<>> THEN <<>> ELSE found[1].sequence]

\* a variant that asks for the query at the start of the sequence only
contains_subsequence_prefix(sequence, query) ==
    /\ query # <<>>
    /\ Len(query) <= Len(sequence)
    /\ SubSeq(sequence, 1, Len(query)) = query

\* _contains_subsequence, lines 141-147
contains_subsequence(sequence, query) ==
    IF query = <<>> \/ Len(query) > Len(sequence) THEN FALSE
    ELSE \E i \in 0..(Len(sequence) - Len(query)) :
            SubSeq(sequence, i + 1, i + Len(query)) = query

\* lines 161-170: the paths of the matching entries, in the order of the index
matched_paths(index_data, query) ==
    IF query = <<>> THEN <<>>
    ELSE LET hits == SelectSeq(index_data.entries,
                        LAMBDA e : contains_subsequence(e.melody_sequence, query))
         IN  [i \in DOMAIN hits |-> hits[i].path]

\* hard_match_endpoint, lines 150-170: the response
hard_match_endpoint(database_root, query_path) ==
    IF ~is_dir(database_root) THEN handle_exception("FileNotFoundError")
    ELSE IF query_path \notin DOMAIN disk THEN handle_exception("FileNotFoundError")
    ELSE LET loaded == load_index(database_root) IN
         IF loaded.raised # "" THEN handle_exception(loaded.raised)
         ELSE LET q == query_sequence(query_path) IN
              IF q.raised # "" THEN handle_exception(q.raised)
              ELSE ok_response([paths_to_matched_song |->
                                    matched_paths(loaded.index_data, q.sequence)])

----------------------------------------------------------------------------
(* The index builder and the retrieval endpoint over a database on disk *)

DbRoot == <<"db">>

\* the files a database is made of: an unparsable one, single-track files
\* that yield a melody of 4 notes or none (3 notes are too few), and a file
\* whose MELODY track is a chord
DbFiles ==
    {Corrupt}
    \cup {MelodyFile(<<[name |-> Str_piano, shape |-> "mono", notes |-> n]>>) : n \in {3, 4}}
    \cup {MelodyFile(<<[name |-> Str_MELODY, shape |-> "chord", notes |-> 4]>>)}

\* the disk holding the database of the files fs
Database(fs) ==
    [p \in {DbRoot, DbRoot \o <<"maestro">>, DbRoot \o <<"maestro", "2004">>}
            \cup {MidiPath(DbRoot, k) : k \in DOMAIN fs} |->
        IF Len(p) = 4 /\ p[4] \in DOMAIN fs THEN fs[p[4]] ELSE Dir]

InitIndex ==
    /\ disk \in {Database(fs) : fs \in UNION {[1..n -> DbFiles] : n \in 1..MaxDbFiles}}
    /\ calls = <<>>
    /\ input = "none"
    /\ output = NotRun

\* write_index, lines 54-58, run from the command line: the exception that
\* ends the run, or the index file written and the counters printed
WriteIndex ==
    /\ Len(calls) < MaxCalls
    /\ \E database_root \in {DbRoot, MissingPath} :
        LET index_data == build_index(database_root) IN
        IF index_data.raised # ""
        THEN /\ Served("write_index", database_root, "none",
                       [raised |-> index_data.raised])
             /\ UNCHANGED disk
        ELSE /\ disk' = (index_path_of(database_root) :>
                            [database_root |-> database_root,
                             entries |-> index_data.entries]) @@ disk
             /\ Served("write_index", database_root, "none",
                       [raised |-> "", n_ok |-> index_data.n_ok,
                        n_failed |-> index_data.n_failed,
                        index_path |-> index_path_of(database_root)])
    /\ UNCHANGED <<input, output>>

\* the hard-match requests: any file of the database or a missing file as
\* the query, and a missing database
HardMatchRequests ==
    {<<DbRoot, q>> : q \in ({MidiPath(DbRoot, k) : k \in 1..MaxDbFiles} \cap DOMAIN disk)
                            \cup {MissingPath}}
    \cup {<<MissingPath, MidiPath(DbRoot, 1)>>}

\* POST /v1/midi/retrieval/hard-match
HardMatch ==
    /\ Len(calls) < MaxCalls
    /\ \E req \in HardMatchRequests :
        Served("hard_match", req[1], req[2], hard_match_endpoint(req[1], req[2]))
    /\ UNCHANGED <<disk, input, output>>

NextIndex == WriteIndex \/ HardMatch

SpecIndex == InitIndex /\ [][NextIndex]_vars

\* the files of the database, in the order the builder visits them
DbContents == [i \in DOMAIN midi_paths(DbRoot) |-> disk[midi_paths(DbRoot)[i]]]

\* a file of the database yields a non-empty melody
YieldsMelody(f) ==
    /\ f # Corrupt
    /\ extract_melody_track(f).raised = ""
    /\ extract_melody_track(f).sequence # <<>>

BuildsOf(root) ==
    {n \in DOMAIN calls : calls[n].op = "write_index" /\ calls[n].path = root}

\* C7: every build over the database returns; its index has one entry per
\* file that yields a melody, and every other file, the unparsable ones
\* included, is counted as skipped.
C7_FailureIsolation ==
    \A n \in BuildsOf(DbRoot) :
        LET r == calls[n].response
            good == {i \in DOMAIN DbContents : YieldsMelody(DbContents[i])}
        IN  /\ r.raised = ""
            /\ r.n_ok = Cardinality(good)
            /\ r.n_failed = Len(DbContents) - Cardinality(good)
            /\ Len(disk[r.index_path].entries) = Cardinality(good)

\* the part of C7 the builder does keep: over a database all of whose files
\* parse, a file without a melody is counted and does not end the build
NoMelodyCounted ==
    \A n \in BuildsOf(DbRoot) :
        (\A i \in DOMAIN DbContents : DbContents[i] # Corrupt) =>
            LET r == calls[n].response
                good == {i \in DOMAIN DbContents : YieldsMelody(DbContents[i])}
            IN  /\ r.raised = ""
                /\ r.n_ok = Cardinality(good)
                /\ r.n_failed = Len(DbContents) - Cardinality(good)
                /\ [i \in DOMAIN disk[r.index_path].entries |->
                        disk[r.index_path].entries[i].path]
                   = SelectSeq(midi_paths(DbRoot), LAMBDA p : YieldsMelody(disk[p]))

\* a build over three files, the second of them unparsable and the two
\* others with a melody, has been run
CorruptAmongThree ==
    /\ Len(DbContents) = 3
    /\ DbContents[2] = Corrupt
    /\ YieldsMelody(DbContents[1]) /\ YieldsMelody(DbContents[3])
    /\ BuildsOf(DbRoot) # {}

\* C9: once the index of a database has been built, a hard-match request whose
\* query is a file of that database with an entry in the index is answered ok,
\* and the matched paths contain the query's own path.
C9_SelfMatch ==
    \A m \in DOMAIN calls : \A n \in BuildsOf(DbRoot) :
        ( /\ n < m
          /\ calls[n].response.raised = ""
          /\ calls[m].op = "hard_match"
          /\ calls[m].path = DbRoot
          /\ \E i \in DOMAIN disk[index_path_of(DbRoot)].entries :
                disk[index_path_of(DbRoot)].entries[i].path = calls[m].arg )
        => /\ calls[m].response.ok
           /\ \E i \in DOMAIN calls[m].response.result.paths_to_matched_song :
                calls[m].response.result.paths_to_matched_song[i] = calls[m].arg

\* every hard-match request that finds the database directory and the query
\* file is answered 500 INTERNAL_ERROR
HardMatchAlwaysFails ==
    \A m \in DOMAIN calls :
        (calls[m].op = "hard_match" /\ calls[m].path = DbRoot
            /\ calls[m].arg \in DOMAIN disk)
        => calls[m].response = error_response("INTERNAL_ERROR", 500)

\* a query that is in the index has been sent after a successful build
SelfQuerySent ==
    \E m \in DOMAIN calls : \E n \in BuildsOf(DbRoot) :
        /\ n < m
        /\ calls[n].response.raised = ""
        /\ calls[m].op = "hard_match"
        /\ calls[m].path = DbRoot
        /\ \E i \in DOMAIN disk[index_path_of(DbRoot)].entries :
              disk[index_path_of(DbRoot)].entries[i].path = calls[m].arg

----------------------------------------------------------------------------
(* The matching of hard_match_endpoint, lines 161-170, on a loaded index and *)
(* a query sequence                                                          *)

\* most entries in an index
MaxEntries == 2

\* most notes in the melody of an entry and in a query
MaxMelodyLen == 3

Pitches == {64, 65}

\* the index whose i-th entry holds the i-th of the melodies
IndexOf(melodies) ==
    [database_root |-> DbRoot,
     entries |-> [i \in DOMAIN melodies |->
                    [path |-> MidiPath(DbRoot, i), melody_sequence |-> melodies[i]]]]

InitMatch ==
    /\ disk = <<>>
    /\ calls = <<>>
    /\ input \in [index_data : {IndexOf(ms) :
                                  ms \in SeqsUpTo(SeqsUpTo(Pitches, MaxMelodyLen),
                                                  MaxEntries)},
                  query : SeqsUpTo(Pitches, MaxMelodyLen)]
    /\ output = NotRun

Match ==
    /\ output = NotRun
    /\ output' = [paths_to_matched_song |->
                    matched_paths(input.index_data, input.query)]
    /\ UNCHANGED <<disk, calls, input>>

NextMatch == Match

SpecMatch == InitMatch /\ [][NextMatch]_vars

\* the query is a contiguous run of s at offset k
RunAt(s, query, k) ==
    /\ k + Len(query) <= Len(s)
    /\ \A j \in 1..Len(query) : s[k + j] = query[j]

\* the positions in the index of the entries that hold the query
Holders(index_data, query) ==
    {i \in DOMAIN index_data.entries :
        /\ query # <<>>
        /\ \E k \in 0..Len(index_data.entries[i].melody_sequence) :
              RunAt(index_data.entries[i].melody_sequence, query, k)}

\* C8: the returned list is exactly the paths, in index order, of the entries
\* whose sequence holds the query as a contiguous run at some offset; an empty
\* query, and a query longer than an entry, match nothing.
C8_ExactMatches ==
    output # NotRun =>
        LET entries == input.index_data.entries
            holders == Holders(input.index_data, input.query)
            matches == output.paths_to_matched_song
        IN  /\ Len(matches) = Cardinality(holders)
            /\ \A n \in DOMAIN matches :
                  \E i \in holders :
                      /\ matches[n] = entries[i].path
                      /\ Cardinality({j \in holders : j < i}) = n - 1
            /\ input.query = <<>> => matches = <<>>
            /\ \A i \in DOMAIN entries :
                  Len(input.query) > Len(entries[i].melody_sequence) =>
                      \A n \in DOMAIN matches : matches[n] # entries[i].path

\* the query [64, 65] against two entries that both hold it past their start,
\* answered with both paths in index order
C8_Witness ==
    /\ input.query = <<64, 65>>
    /\ Len(input.index_data.entries) = 2
    /\ input.index_data.entries[1].melody_sequence = <<65, 64, 65>>
    /\ input.index_data.entries[2].melody_sequence = <<64, 64, 65>>
    /\ output = [paths_to_matched_song |-> <<MidiPath(DbRoot, 1), MidiPath(DbRoot, 2)>>]

\* a query whose notes are in the entry but not as a contiguous run, and an
\* entry shorter than the query, are both left out
C8_WitnessNoMatch ==
    /\ output = [paths_to_matched_song |-> <<>>]
    /\ input.query = <<64, 64>>
    /\ Len(input.index_data.entries) = 2
    /\ input.index_data.entries[1].melody_sequence = <<64, 65, 64>>
    /\ input.index_data.entries[2].melody_sequence = <<64>>

----------------------------------------------------------------------------
(* Missing inputs *)

NotFound == error_response("FILE_NOT_FOUND", 404)

TransformOps == {"change_tempo", "transpose", "common_to_swing"}

\* the request of call c names an input that is not there: the input file of
\* a valid transform request; the database directory, the query file or the
\* index file of a hard-match request.  Nothing is ever removed from the
\* disk, so what is missing now was missing when the call was served.
MissingInput(c) ==
    CASE c.op \in TransformOps ->
            /\ c.path \notin DOMAIN disk
            /\ c.op = "change_tempo" => ChangeTempoRequest_valid(c.arg)
      [] c.op = "hard_match" ->
            \/ ~is_dir(c.path)
            \/ c.arg \notin DOMAIN disk
            \/ index_path_of(c.path) \notin DOMAIN disk
      [] OTHER -> FALSE

\* C11: a call whose input is missing is answered 404 FILE_NOT_FOUND, never
\* with another error or a success.
C11_MissingIsNotFound ==
    \A n \in DOMAIN calls : MissingInput(calls[n]) => calls[n].response = NotFound

\* the part of C11 that holds at the retrieval endpoint: a missing database
\* directory and a missing query file are answered 404
MissingDirOrQueryNotFound ==
    \A n \in DOMAIN calls :
        (calls[n].op = "hard_match"
            /\ (~is_dir(calls[n].path) \/ calls[n].arg \notin DOMAIN disk))
        => calls[n].response = NotFound

\* a hard-match request for an existing query was sent to a database that has
\* no index file
NoIndexQueried ==
    \E n \in DOMAIN calls :
        /\ calls[n].op = "hard_match"
        /\ is_dir(calls[n].path)
        /\ calls[n].arg \in DOMAIN disk
        /\ index_path_of(calls[n].path) \notin DOMAIN disk

----------------------------------------------------------------------------
(* change_tempo on files of several resolutions, with and without a tempo   *)
(* event                                                                    *)

RescaleMsgs ==
    {NoteOn(60, 64, 2), NoteOff(60, 2), NoteOn(62, 64, 3), SetTempo(500000, 0)}

Resolutions == {96, 480}

InitRescale ==
    /\ disk \in {(InputPath :> f) : f \in FilesOver(RescaleMsgs, Resolutions)}
    /\ calls = <<>>
    /\ input = "none"
    /\ output = NotRun

SpecRescale == InitRescale /\ [][NextTempo]_vars

\* C12: the file a successful transform writes has the resolution of its
\* input file.
C12_ResolutionPreserved ==
    \A n \in DOMAIN calls :
        (calls[n].op \in TransformOps /\ Succeeded(calls[n])) =>
            OutputOf(calls[n]).ticks_per_beat = disk[calls[n].path].ticks_per_beat

\* the part of C12 that holds for change_tempo: the strategy for files with a
\* tempo event keeps the resolution
ResolutionKeptWithTempo ==
    \A n \in DOMAIN calls :
        (calls[n].op \in TransformOps /\ Succeeded(calls[n])
            /\ has_tempo_meta(disk[calls[n].path])) =>
            OutputOf(calls[n]).ticks_per_beat = disk[calls[n].path].ticks_per_beat

\* the absolute tick position of the k-th message of msgs
RECURSIVE AbsPosition(_, _)
AbsPosition(msgs, k) == IF k = 0 THEN 0 ELSE AbsPosition(msgs, k - 1) + msgs[k].time

\* a successful change_tempo call on a file without a tempo event
RescaleCall(c) ==
    c.op = "change_tempo" /\ Succeeded(c) /\ ~has_tempo_meta(disk[c.path])

\* C15: change_tempo with ratio > 0 on a file without a tempo event puts the
\* k-th message of every track within half a tick of its old absolute position
\* divided by the ratio, whatever k; no delta-time is negative; the messages
\* are the same in number, order and content apart from their delta-time; and
\* the output holds no tempo event.
C15_RescaledPositions ==
    \A n \in DOMAIN calls :
        RescaleCall(calls[n]) =>
            LET old == disk[calls[n].path]
                new == OutputOf(calls[n])
                ratio == calls[n].arg
            IN  /\ SameShape(old, new)
                /\ ~has_tempo_meta(new)
                /\ \A i \in DOMAIN old.tracks :
                     LET a == old.tracks[i].msgs
                         b == new.tracks[i].msgs
                     IN  \A k \in DOMAIN a :
                            /\ b[k].time >= 0
                            /\ [b[k] EXCEPT !.time = 0] = [a[k] EXCEPT !.time = 0]
                            /\ 2 * Abs(AbsPosition(b, k) * ratio[1]
                                       - AbsPosition(a, k) * ratio[2]) <= ratio[1]

\* ratio 4 on a track of delta-times 2 and 2: the positions 2 and 4 become 0
\* (0.5 rounded to even) and 1, so the delta-times written are 0 and 1
C15_Witness ==
    \E n \in DOMAIN calls :
        /\ RescaleCall(calls[n])
        /\ calls[n].arg = <<4, 1>>
        /\ \E i \in DOMAIN disk[calls[n].path].tracks :
             LET a == disk[calls[n].path].tracks[i].msgs
                 b == OutputOf(calls[n]).tracks[i].msgs
             IN  /\ Len(a) = 2 /\ a[1].time = 2 /\ a[2].time = 2
                 /\ b[1].time = 0 /\ b[2].time = 1

----------------------------------------------------------------------------
(* Transform calls step by step.  The endpoints are plain functions, which  *)
(* the framework runs in a thread pool, so the calls of several requests    *)
(* interleave between the statements of midi_ops.py: read and transform the *)
(* input, draw a candidate name, check that it is unused, save, return.     *)
(* input[p] is the state of worker p.                                       *)

Procs == {"p1", "p2"}

\* the input file of each worker: two files of the same name in different
\* directories
InputOf(p) == IF p = "p1" THEN <<"/a", "song">> ELSE <<"/b", "song">>

SongOf(p) ==
    [ticks_per_beat |-> 480,
     tracks |-> <<[name |-> NoName,
                   msgs |-> IF p = "p1" THEN MonoTrack(60, 1) ELSE MonoTrack(72, 1)]>>]

\* the requests a worker may serve: op, suffix and argument
StepRequests ==
    {[op |-> "transpose", suffix |-> "transpose", arg |-> 1],
     [op |-> "change_tempo", suffix |-> "tempo", arg |-> <<4, 1>>]}

Idle ==
    [pc |-> "idle", op |-> "none", suffix |-> "none", arg |-> "none",
     midi |-> NotRun, candidate |-> <<>>]

InitSteps ==
    /\ disk = [path \in {InputOf(p) : p \in Procs} |->
                SongOf(CHOOSE p \in Procs : InputOf(p) = path)]
    /\ calls = <<>>
    /\ input = [p \in Procs |-> Idle]
    /\ output = NotRun

\* the request arrives; the input is read and transformed (lines 63-68 of
\* transpose, 32-56 of change_tempo)
Begin(p) ==
    /\ input[p].pc = "idle"
    /\ \E req \in StepRequests :
        LET outcome == IF req.op = "transpose" THEN transpose(InputOf(p), req.arg)
                       ELSE change_tempo(InputOf(p), req.arg)
        IN  /\ outcome.raised = ""
            /\ input' = [input EXCEPT ![p] =
                            [pc |-> "draw", op |-> req.op, suffix |-> req.suffix,
                             arg |-> req.arg, midi |-> outcome.midi,
                             candidate |-> <<>>]]
    /\ UNCHANGED <<disk, calls, output>>

\* line 26: a candidate name is made from a fresh uuid
Draw(p) ==
    /\ input[p].pc = "draw"
    /\ \E uuid \in Uuids :
        input' = [input EXCEPT ![p].pc = "check",
                               ![p].candidate =
                                    output_candidate(InputOf(p), input[p].suffix, uuid)]
    /\ UNCHANGED <<disk, calls, output>>

\* lines 27-28 and the while True of line 25: return the candidate if it does
\* not exist, draw again if it does
Check(p) ==
    /\ input[p].pc = "check"
    /\ input' = [input EXCEPT ![p].pc =
                    IF input[p].candidate \notin DOMAIN disk THEN "save" ELSE "draw"]
    /\ UNCHANGED <<disk, calls, output>>

\* midi.save(output_path)
Save(p) ==
    /\ input[p].pc = "save"
    /\ disk' = (input[p].candidate :> input[p].midi) @@ disk
    /\ input' = [input EXCEPT ![p].pc = "return"]
    /\ UNCHANGED <<calls, output>>

\* return output_path, and the endpoint's ok_response
Return(p) ==
    /\ input[p].pc = "return"
    /\ Served(input[p].op, InputOf(p), input[p].arg,
              ok_response([path_to_output_midi |-> input[p].candidate]))
    /\ input' = [input EXCEPT ![p].pc = "done"]
    /\ UNCHANGED <<disk, output>>

Step(p) == Begin(p) \/ Draw(p) \/ Check(p) \/ Save(p) \/ Return(p)

NextSteps == \E p \in Procs : Step(p)

SpecSteps == InitSteps /\ [][NextSteps]_vars

\* every worker thread keeps being scheduled
SpecStepsFair == SpecSteps /\ \A p \in Procs : WF_vars(Step(p))

\* C13: a call that has entered the retry loop of _generate_output_path
\* leaves it: after a bounded number of attempts it has either a free path or
\* has given up.
C13_BoundedRetry ==
    \A p \in Procs :
        (input[p].pc = "draw") ~> (input[p].pc \notin {"draw", "check"})

\* the part of C13 that holds: the path the loop returns was not on the disk
\* when it was checked, and is not the input path
ReturnedPathWasFree ==
    [][\A p \in Procs :
        (input[p].pc = "check" /\ input'[p].pc = "save") =>
            /\ input[p].candidate \notin DOMAIN disk
            /\ input'[p].candidate # InputOf(p)]_vars

\* worker p has chosen its output path
HasOutputPath(p) == input[p].pc \in {"save", "return", "done"}

\* C14: under every interleaving, no two calls on different input files
\* write or return the same output path, and the file at the path a call
\* returns is the one that call wrote.
C14_IndependentCalls ==
    /\ \A p, q \in Procs :
        (p # q /\ HasOutputPath(p) /\ HasOutputPath(q)) =>
            input[p].candidate # input[q].candidate
    /\ \A p \in Procs :
        input[p].pc \in {"return", "done"} => disk[input[p].candidate] = input[p].midi

\* the part of C14 that holds: calls whose names differ in stem or suffix
\* never share an output path
DifferentSuffixIndependent ==
    \A p, q \in Procs :
        (p # q /\ HasOutputPath(p) /\ HasOutputPath(q)
            /\ input[p].suffix # input[q].suffix) =>
            input[p].candidate # input[q].candidate

\* both workers have returned
BothReturned == \A p \in Procs : input[p].pc = "done"

----------------------------------------------------------------------------
(* extract_melody_track on files that send it to its fallback *)

\* the ticks that make 99999 seconds on the clock of extract_pitch_sequence
HeldTicks == 99999 * TicksPerSecond

\* a track of n notes started together, the first released HeldTicks later
\* and the others with it
HeldTrack(base, n) ==
    [k \in 1..2 * n |->
        IF k <= n THEN NoteOn(base + k - 1, 64, 0)
        ELSE NoteOff(base + k - n - 1, IF k = n + 1 THEN HeldTicks ELSE 0)]

FallbackShapes ==
    [name : {Str_MELODY, Str_mel, Str_piano}, shape : {"mono", "chord", "held"},
     notes : {3, 4}]

FallbackTrackAt(i, d) ==
    [name |-> d.name,
     msgs |-> CASE d.shape = "mono"  -> MonoTrack(48 + 12 * i, d.notes)
                [] d.shape = "chord" -> ChordTrack(48 + 12 * i, d.notes)
                [] d.shape = "held"  -> HeldTrack(48 + 12 * i, d.notes)]

FallbackFile(ds) ==
    [ticks_per_beat |-> 480,
     tracks |-> [i \in DOMAIN ds |-> FallbackTrackAt(i, ds[i])]]

InitFallback ==
    /\ disk = <<>>
    /\ calls = <<>>
    /\ input \in {FallbackFile(ds) :
                    ds \in UNION {[1..n -> FallbackShapes] : n \in 1..MaxTracks}}
    /\ output = NotRun

SpecFallback == InitFallback /\ [][NextMelody]_vars

\* no stage finds a track to take: no track has a usable extraction
StagesFail(midi) ==
    \A i \in DOMAIN midi.tracks : ~Usable(Extractions(midi)[i])

\* the positions of the tracks named exactly MELODY
NamedMELODY(midi) == {i \in DOMAIN midi.tracks : midi.tracks[i].name = Str_MELODY}

\* what C16 asks of the result for a file on which the stages fail
FallbackResult(midi, result) ==
    IF Cardinality(NamedMELODY(midi)) = 1
    THEN LET i == CHOOSE j \in NamedMELODY(midi) : TRUE
         IN  result = [raised |-> "", sequence |-> Onsets(midi.tracks[i].msgs)]
    ELSE result = [raised |-> "", sequence |-> <<>>]

\* C16: when the three stages fail, the result is the onset sequence of the
\* one track named exactly MELODY, however its notes overlap and however long
\* it lasts, and the empty sequence when no track or several tracks carry
\* that name; the extractor never raises.
C16_Fallback ==
    (output # NotRun /\ StagesFail(input)) => FallbackResult(input, output)

\* some track holds two notes together for 99999 seconds or longer up to a
\* release
HeldLong(midi) ==
    \E i \in DOMAIN midi.tracks :
        \E k \in DOMAIN midi.tracks[i].msgs :
            LateRelease(midi.tracks[i].msgs, <<99999, 1>>, k)

\* the part of C16 that holds: files in which no overlap lasts 99999 seconds
FallbackUnderTolerance ==
    (output # NotRun /\ StagesFail(input) /\ ~HeldLong(input)) =>
        FallbackResult(input, output)

\* the fallback has returned the onsets of a chord in the one MELODY track
FallbackTaken ==
    /\ output # NotRun
    /\ StagesFail(input)
    /\ Cardinality(NamedMELODY(input)) = 1
    /\ output.raised = ""
    /\ Len(output.sequence) = 4

\* the stages failed on a file with two MELODY tracks, and the result is empty
TwoNamedMELODY ==
    /\ output # NotRun
    /\ StagesFail(input)
    /\ Cardinality(NamedMELODY(input)) = 2
    /\ output = [raised |-> "", sequence |-> <<>>]

----------------------------------------------------------------------------
(* _query_sequence applied to a query file *)

\* a track without notes
SilentTrack == <<Marker(0)>>

QueryShapes == [shape : {"mono", "chord", "silent"}, notes : 1..MaxNotes]

QueryTrackAt(i, d) ==
    [name |-> NoName,
     msgs |-> CASE d.shape = "mono"   -> MonoTrack(48 + 12 * i, d.notes)
                [] d.shape = "chord"  -> ChordTrack(48 + 12 * i, d.notes)
                [] d.shape = "silent" -> SilentTrack]

QueryFile(ds) ==
    [ticks_per_beat |-> 480, tracks |-> [i \in DOMAIN ds |-> QueryTrackAt(i, ds[i])]]

InitQuery ==
    /\ disk \in {(InputPath :> QueryFile(ds)) :
                    ds \in UNION {[1..n -> QueryShapes] : n \in 1..MaxTracks}}
    /\ calls = <<>>
    /\ input = InputPath
    /\ output = NotRun

QuerySequence ==
    /\ output = NotRun
    /\ output' = query_sequence(input)
    /\ UNCHANGED <<disk, calls, input>>

NextQuery == QuerySequence

SpecQuery == InitQuery /\ [][NextQuery]_vars

\* the positions of the tracks that hold a note onset
WithOnset(midi) ==
    {i \in DOMAIN midi.tracks : AllNoteOns(midi.tracks[i].msgs) # <<>>}

\* the note onsets of the first track that has one, or nothing
PlainQuery(midi) ==
    IF WithOnset(midi) = {} THEN <<>>
    ELSE AllNoteOns(midi.tracks[SetMin(WithOnset(midi))].msgs)

\* C17: the query sequence is the plain note-onset sequence of the first track
\* of the query file that holds a note onset, polyphonic or not.
C17_NoMonophonicityGate ==
    output # NotRun => output = [raised |-> "", sequence |-> PlainQuery(disk[input])]

\* some track with an onset before or at the first such track of the file is
\* polyphonic at the default tolerance
FirstIsPolyphonic(midi) ==
    /\ WithOnset(midi) # {}
    /\ extract_pitch_sequence(midi.tracks[SetMin(WithOnset(midi))].msgs,
                              DEFAULT_TOLERANCE) = None

\* the part of C17 that holds: a first track with onsets that passes the gate
\* is the query
QueryOfMonophonicFirst ==
    (output # NotRun /\ ~FirstIsPolyphonic(disk[input])) =>
        output = [raised |-> "", sequence |-> PlainQuery(disk[input])]

\* the query was taken from the second track because the first is a chord
ChordSkipped ==
    /\ output # NotRun
    /\ Len(disk[input].tracks) = 2
    /\ FirstIsPolyphonic(disk[input])
    /\ output.sequence = AllNoteOns(disk[input].tracks[2].msgs)
    /\ output.sequence # <<>>

----------------------------------------------------------------------------
(* extract_pitch_sequence applied, as try_tracks applies it, to the tracks  *)
(* of files of several resolutions                                          *)

FileResolutions == {96, 480, 960}

\* the ticks two notes are held together
OverlapTicks == {0, 19, 20, 95, 96, 191, 192, 480}

\* two notes started together, the first released after d ticks and the
\* second e ticks later
OverlapTrack(d, e) ==
    <<NoteOn(60, 64, 0), NoteOn(62, 64, 0), NoteOff(60, d), NoteOff(62, e)>>

OverlapTracks == {OverlapTrack(d, e) : d \in OverlapTicks, e \in {0, 10}}

InitResolution ==
    /\ disk = <<>>
    /\ calls = <<>>
    /\ input \in {[ticks_per_beat |-> r,
                   tracks |-> [i \in DOMAIN ts |-> [name |-> NoName, msgs |-> ts[i]]]] :
                    r \in FileResolutions,
                    ts \in UNION {[1..n -> OverlapTracks] : n \in 1..MaxTracks}}
    /\ output = NotRun

\* lines 137-140: every track is extracted with the default tolerance; the
\* call passes the track alone
ExtractTracks ==
    /\ output = NotRun
    /\ output' = [results |->
                    [i \in DOMAIN input.tracks |->
                        extract_pitch_sequence(input.tracks[i].msgs, DEFAULT_TOLERANCE)]]
    /\ UNCHANGED <<disk, calls, input>>

NextResolution == ExtractTracks

SpecResolution == InitResolution /\ [][NextResolution]_vars

\* message k releases a sounding note while another note number, started
\* resolution / 5 ticks or longer before (0.1 s at 120 bpm), is sounding
LateAtResolution(msgs, resolution, k) ==
    /\ IsRelease(msgs[k])
    /\ Sounding(msgs, msgs[k].note, k - 1)
    /\ \E q \in NoteNumbers(msgs) \ {msgs[k].note} :
        /\ Sounding(msgs, q, k - 1)
        /\ 5 * (AbsTick(msgs, k) - AbsTick(msgs, OnsetIndex(msgs, q, k - 1)))
              >= resolution

\* C18: with the file's resolution R in the conversion, the result for a
\* track is null exactly when some overlap check meets R / 5 ticks or more
\* since the other note's onset.
C18_FileResolution ==
    output # NotRun =>
        \A i \in DOMAIN input.tracks :
            (output.results[i] = None) <=>
                \E k \in DOMAIN input.tracks[i].msgs :
                    LateAtResolution(input.tracks[i].msgs, input.ticks_per_beat, k)

\* the part of C18 that holds: files of 480 ticks per quarter note
AgreesAt480 ==
    (output # NotRun /\ input.ticks_per_beat = ASSUMED_TICKS_PER_BEAT) =>
        \A i \in DOMAIN input.tracks :
            (output.results[i] = None) <=>
                \E k \in DOMAIN input.tracks[i].msgs :
                    LateAtResolution(input.tracks[i].msgs, input.ticks_per_beat, k)

\* the verdict does not depend on the resolution of the file at all
VerdictIgnoresResolution ==
    output # NotRun =>
        \A i \in DOMAIN input.tracks :
            (output.results[i] = None) <=>
                \E k \in DOMAIN input.tracks[i].msgs :
                    LateAtResolution(input.tracks[i].msgs, ASSUMED_TICKS_PER_BEAT, k)

\* a track of a file of 96 ticks per quarter note whose notes overlap for 20
\* ticks (more than 0.1 s) has been extracted as monophonic
OverlapAcceptedAt96 ==
    /\ output # NotRun
    /\ input.ticks_per_beat = 96
    /\ input.tracks[1].msgs = OverlapTrack(20, 0)
    /\ output.results[1] = Some(<<60, 62>>)

====
